---- MODULE Spec2Model ----
(***************************************************************************)
(* A model of the green-thread runtime of src/green.rs together with the   *)
(* producer/consumer program of src/main.rs.                               *)
(*                                                                         *)
(* The runtime runs on one OS thread, so the model has one flow of control.*)
(* `running` is the stack the CPU is on (0 is the host stack).  One action *)
(* is one runtime call made by the code that is running, followed to the   *)
(* point where control is back in user code: the call's own body, the      *)
(* context switch it makes, and the part of schedule / recv / entry_point /*)
(* spawn_from_main that the switched-to flow executes after its            *)
(* set_context returns non-zero.                                           *)
(*                                                                         *)
(* The runtime's functions are operators from a state record to a state    *)
(* record, composed the way the code calls them.                           *)
(***************************************************************************)
EXTENDS Integers, Sequences, FiniteSets, TLC

\* ---------------------------------------------------------------- bounds
\* stacks ever allocated (tasks ever created) in one run
MaxTasks == 3
\* runtime calls made in one run by the host and by the tasks that choose
\* their calls freely
MaxOps == 6
\* calls of spawn_from_main made by the host in one run
MaxBoots == 2
\* samples one call of get_id may draw from the random source
MaxSamples == 2

\* the producer sends, and the consumer receives, this many messages
NumItems == 10

\* identifiers: a small range in place of the u64 of rand::random::<u64>()
IDS == 1..MaxTasks

\* ---------------------------------------------------------------- values
\* Option<T>
None == <<>>
Some(x) == <<x>>
is_some(o) == o # <<>>

\* ptr::null_mut() and the host stack
Null == 0

\* a HashMap with no key
EmptyMap == [k \in {} |-> <<>>]

MapRemove(map, key) == [k \in DOMAIN map \ {key} |-> map[k]]

MapInsert(map, key, value) ==
    [k \in DOMAIN map \cup {key} |-> IF k = key THEN value ELSE map[k]]

\* Registers::new: a fresh snapshot resumes at entry_point on the given stack
Registers_new(sp) == [x30 |-> "entry_point", sp |-> sp]

\* set_context: the snapshot resumes after the call, on the current stack
set_context(at, sp) == [x30 |-> at, sp |-> sp]

\* Context::new
Context_new(func, stack, id) ==
    [regs |-> Registers_new(stack), stack |-> stack, entry |-> func, id |-> id]

\* the part of a stack the model reads: the user function running on it, its
\* position and locals, and the runtime function it is inside with that
\* function's locals (and, as history, the number of send calls made before
\* the frame's recv suspended)
NoFrame ==
    [entry |-> "none", pc |-> "none", i |-> 0, child |-> 0,
     fn |-> "none", id |-> 0, key |-> 0, since |-> 0]

\* the host's frame: main.rs's main, on the host stack
HostFrame == [NoFrame EXCEPT !.entry = "main", !.pc = "run"]

\* ---------------------------------------------------------------- MappedList
push_back(map, id, value) ==
    IF id \in DOMAIN map
    THEN [map EXCEPT ![id] = Append(@, value)]
    ELSE [k \in DOMAIN map \cup {id} |-> IF k = id THEN <<value>> ELSE map[k]]

\* pop_front that takes the newest message
pop_back(map, id) ==
    IF id \in DOMAIN map /\ map[id] # <<>>
    THEN [val |-> Some(map[id][Len(map[id])]),
          map |-> [map EXCEPT ![id] = SubSeq(@, 1, Len(@) - 1)]]
    ELSE [val |-> None, map |-> map]

\* pop_front that leaves the message in the list
pop_front_keep(map, id) ==
    IF id \in DOMAIN map /\ map[id] # <<>>
    THEN [val |-> Some(Head(map[id])), map |-> map]
    ELSE [val |-> None, map |-> map]

\* pop_front: the value it returns and the map it leaves
pop_front(map, id) ==
    IF id \in DOMAIN map /\ map[id] # <<>>
    THEN [val |-> Some(Head(map[id])), map |-> [map EXCEPT ![id] = Tail(@)]]
    ELSE [val |-> None, map |-> map]

\* ---------------------------------------------------------------- state
VARIABLES
    CTX_MAIN,       \* Option: the saved host registers
    UNUSED_STACK,   \* Null or the stack of the task that exited last
    CONTEXTS,       \* the runnable queue, front first
    ID, MESSAGES, WAITING,  \* the three raw pointers: Null or 1 (set)
    ids, msgs, waiting,     \* spawn_from_main's locals the pointers point to
    running,        \* the stack the CPU is on; Null (0) is the host stack
    frames,         \* stack -> the frame on it
    fatal,          \* "" or the message of the panic that ended the process
    out,            \* stdout, a sequence of <<"Produce" | "Consume", n>>
    nalloc,         \* stacks allocated so far; a stack is named by its number
    freed,          \* stacks deallocated
    lost,           \* stacks overwritten in UNUSED_STACK before being drained
    nboot,          \* calls of spawn_from_main made
    nret,           \* returns of spawn_from_main to its caller
    booted,         \* history: the entry functions passed to spawn_from_main
    nops,           \* runtime calls made by the host and the freely choosing tasks
    nsent,          \* calls of send made
    sent,           \* history: message n was sent by sent[n+1].from to sent[n+1].to
    rcvd,           \* history: the messages recv calls returned, in order
    started,        \* history: stacks whose entry function was called
    rejected,       \* history: samples the last get_id drew and rejected
    yc,             \* history: stack -> schedule calls in the current row of yields
    woke,           \* history: the suspended recv that returned in the last step
    parent,         \* history: stack -> the stack whose code created it
    dead,           \* history: identifiers entry_point has released in this runtime
    drained         \* history: the stack rm_unused_stack released in the last step

vars == <<CTX_MAIN, UNUSED_STACK, CONTEXTS, ID, MESSAGES, WAITING, ids, msgs,
          waiting, running, frames, fatal, out, nalloc, freed, lost, nboot,
          nret, booted, nops, nsent, sent, rcvd, started, rejected, yc, woke, parent,
          dead, drained>>

State ==
    [CTX_MAIN |-> CTX_MAIN, UNUSED_STACK |-> UNUSED_STACK, CONTEXTS |-> CONTEXTS,
     ID |-> ID, MESSAGES |-> MESSAGES, WAITING |-> WAITING,
     ids |-> ids, msgs |-> msgs, waiting |-> waiting,
     running |-> running, frames |-> frames, fatal |-> fatal, out |-> out,
     nalloc |-> nalloc, freed |-> freed, lost |-> lost, nboot |-> nboot,
     nret |-> nret, booted |-> booted, nops |-> nops, nsent |-> nsent, sent |-> sent, rcvd |-> rcvd, started |-> started,
     rejected |-> rejected, yc |-> yc, woke |-> woke,
     parent |-> parent, dead |-> dead, drained |-> drained]

InitState ==
    [CTX_MAIN |-> None, UNUSED_STACK |-> Null, CONTEXTS |-> <<>>,
     ID |-> Null, MESSAGES |-> Null, WAITING |-> Null,
     ids |-> {}, msgs |-> EmptyMap, waiting |-> EmptyMap,
     running |-> Null,
     frames |-> [st \in 0..MaxTasks |-> IF st = Null THEN HostFrame ELSE NoFrame],
     fatal |-> "", out |-> <<>>,
     nalloc |-> 0, freed |-> {}, lost |-> {}, nboot |-> 0,
     nret |-> 0, booted |-> <<>>, nops |-> 0, nsent |-> 0, sent |-> <<>>, rcvd |-> <<>>,
     started |-> {}, rejected |-> 0, yc |-> [st \in 0..MaxTasks |-> 0],
     woke |-> <<>>, parent |-> [st \in 0..MaxTasks |-> Null],
     dead |-> {}, drained |-> <<>>]

Set0(s) ==
    /\ CTX_MAIN = s.CTX_MAIN
    /\ UNUSED_STACK = s.UNUSED_STACK
    /\ CONTEXTS = s.CONTEXTS
    /\ ID = s.ID
    /\ MESSAGES = s.MESSAGES
    /\ WAITING = s.WAITING
    /\ ids = s.ids
    /\ msgs = s.msgs
    /\ waiting = s.waiting
    /\ running = s.running
    /\ frames = s.frames
    /\ fatal = s.fatal
    /\ out = s.out
    /\ nalloc = s.nalloc
    /\ freed = s.freed
    /\ lost = s.lost
    /\ nboot = s.nboot
    /\ nret = s.nret
    /\ booted = s.booted
    /\ nops = s.nops
    /\ nsent = s.nsent
    /\ sent = s.sent
    /\ rcvd = s.rcvd
    /\ started = s.started
    /\ rejected = s.rejected
    /\ yc = s.yc
    /\ woke = s.woke
    /\ parent = s.parent
    /\ dead = s.dead
    /\ drained = s.drained

Set(s) ==
    /\ CTX_MAIN' = s.CTX_MAIN
    /\ UNUSED_STACK' = s.UNUSED_STACK
    /\ CONTEXTS' = s.CONTEXTS
    /\ ID' = s.ID
    /\ MESSAGES' = s.MESSAGES
    /\ WAITING' = s.WAITING
    /\ ids' = s.ids
    /\ msgs' = s.msgs
    /\ waiting' = s.waiting
    /\ running' = s.running
    /\ frames' = s.frames
    /\ fatal' = s.fatal
    /\ out' = s.out
    /\ nalloc' = s.nalloc
    /\ freed' = s.freed
    /\ lost' = s.lost
    /\ nboot' = s.nboot
    /\ nret' = s.nret
    /\ booted' = s.booted
    /\ nops' = s.nops
    /\ nsent' = s.nsent
    /\ sent' = s.sent
    /\ rcvd' = s.rcvd
    /\ started' = s.started
    /\ rejected' = s.rejected
    /\ yc' = s.yc
    /\ woke' = s.woke
    /\ parent' = s.parent
    /\ dead' = s.dead
    /\ drained' = s.drained

Init == Set0(InitState)

\* the panic message of Option::unwrap on None
UnwrapNone == "called Option::unwrap() on a None value"

\* panic!: the process ends; what it wrote to stdout is left of it (and, of the
\* histories, what the host had called)
panic(s, message) ==
    [InitState EXCEPT !.fatal = message, !.out = s.out,
                      !.nboot = s.nboot, !.nret = s.nret, !.booted = s.booted]

\* ---------------------------------------------------------------- user code
\* main.rs's functions, and "worker", a task that may make any runtime call.
\* A frame's pc is the runtime call its function makes next ("ret": it returns).

\* the user function from its call by entry_point to its first runtime call
user_start(func) ==
    CASE func = "producer" -> [NoFrame EXCEPT !.entry = func, !.pc = "spawn"]
      [] func = "consumer" ->
            [NoFrame EXCEPT !.entry = func,
                            !.pc = IF 0 < NumItems THEN "recv" ELSE "ret"]
      [] OTHER -> [NoFrame EXCEPT !.entry = func, !.pc = "run"]

\* the user function of the running task from the return of a runtime call,
\* which returned val, to its next runtime call
user_continue(s, val) ==
    LET st == s.running
        f == s.frames[st]
    IN  CASE f.entry = "producer" /\ f.pc = "spawn" ->
                \* let id = green::spawn(consumer, ..); for i in 0..10 { println!
                IF 0 < NumItems
                THEN [s EXCEPT !.frames[st].child = val[1],
                               !.frames[st].i = 0,
                               !.frames[st].pc = "send",
                               !.out = Append(@, <<"Produce", 0>>)]
                ELSE [s EXCEPT !.frames[st].child = val[1],
                               !.frames[st].pc = "ret"]
          [] f.entry = "producer" /\ f.pc = "send" ->
                IF f.i + 1 < NumItems
                THEN [s EXCEPT !.frames[st].i = f.i + 1,
                               !.out = Append(@, <<"Produce", f.i + 1>>)]
                ELSE [s EXCEPT !.frames[st].i = f.i + 1,
                               !.frames[st].pc = "ret"]
          [] f.entry = "consumer" /\ f.pc = "recv" ->
                \* let msg = green::recv().unwrap(); println!
                IF ~is_some(val)
                THEN panic(s, UnwrapNone)
                ELSE [s EXCEPT !.frames[st].i = f.i + 1,
                               !.frames[st].pc =
                                   IF f.i + 1 < NumItems THEN "recv" ELSE "ret",
                               !.out = Append(@, <<"Consume", val[1]>>)]
          [] OTHER -> s

\* a runtime function is entered by the running code
enter(s, fn) == [s EXCEPT !.frames[s.running].fn = fn]

\* a runtime function returns val to the user code that called it
return_to_user(s, fn, val) ==
    user_continue(
        [s EXCEPT !.frames[s.running].fn = "none",
                  !.frames[s.running].id = 0,
                  !.frames[s.running].key = 0,
                  !.frames[s.running].since = 0],
        val)

\* recv returns msg, popped from the mailbox of key
recv_return(s, key, msg) ==
    return_to_user(
        [s EXCEPT !.rcvd = IF is_some(msg)
                           THEN Append(@, [by |-> s.running, key |-> key,
                                           msg |-> msg[1]])
                           ELSE @],
        "recv", msg)

\* ---------------------------------------------------------------- runtime
\* the stacks of the contexts in the runnable queue and the waiting table
LiveStacks(s) ==
    {s.CONTEXTS[n].stack : n \in 1..Len(s.CONTEXTS)}
        \cup {s.waiting[k].stack : k \in DOMAIN s.waiting}

rm_unused_stack(s) ==
    IF s.UNUSED_STACK # Null
    THEN [s EXCEPT !.freed = @ \cup {s.UNUSED_STACK},
                   !.drained = <<[stack |-> s.UNUSED_STACK, on |-> s.running,
                                  held |-> s.UNUSED_STACK \in LiveStacks(s),
                                  again |-> s.UNUSED_STACK \in s.freed]>>,
                   !.UNUSED_STACK = Null]
    ELSE s

\* schedule returns to its caller: spawn (which returns id), send, or user code
schedule_return(s) ==
    LET f == s.frames[s.running]
    IN  IF f.fn = "spawn" THEN return_to_user(s, "spawn", <<f.id>>)
        ELSE return_to_user(s, f.fn, <<>>)

\* schedule after its set_context returned non-zero
schedule_resume(s) == schedule_return(rm_unused_stack(s))

\* recv after its set_context returned non-zero
recv_resume(s) ==
    LET s1 == rm_unused_stack(s)
        key == s1.frames[s1.running].key
        popped == pop_front(s1.msgs, key)
    IN  recv_return(
            [s1 EXCEPT !.msgs = popped.map,
                       !.woke = <<[stack |-> s1.running, key |-> key,
                                   val |-> popped.val,
                                   since |-> s1.frames[s1.running].since]>>],
            key, popped.val)

\* entry_point up to the call of the entry function and into it
entry_point_call(s) ==
    IF s.CONTEXTS = <<>>
    THEN panic(s, UnwrapNone)
    ELSE LET ctx == Head(s.CONTEXTS)
         IN  [s EXCEPT !.frames[s.running] = user_start(ctx.entry),
                       !.started = @ \cup {s.running}]

\* spawn_from_main's teardown without the drain of the unused-stack slot
spawn_from_main_resume_no_drain(s) ==
    [s EXCEPT !.CTX_MAIN = None,
              !.CONTEXTS = <<>>,
              !.MESSAGES = Null,
              !.WAITING = Null,
              !.ID = Null,
              !.msgs = EmptyMap,
              !.waiting = EmptyMap,
              !.ids = {},
              !.dead = {},
              !.nret = @ + 1,
              !.frames[s.running].fn = "none"]

\* spawn_from_main after its set_context returned non-zero, to its return
spawn_from_main_resume(s) ==
    LET s1 == rm_unused_stack(s)
    IN  [s1 EXCEPT !.CTX_MAIN = None,
                   !.CONTEXTS = <<>>,
                   !.MESSAGES = Null,
                   !.WAITING = Null,
                   !.ID = Null,
                   !.msgs = EmptyMap,
                   !.waiting = EmptyMap,
                   !.ids = {},
                   !.dead = {},
                   !.nret = @ + 1,
                   !.frames[s1.running].fn = "none"]

\* switch_context: load the stack pointer and jump to the saved link register
switch_context(s, regs) ==
    LET s1 == [s EXCEPT !.running = regs.sp]
    IN  CASE regs.x30 = "entry_point" -> entry_point_call(s1)
          [] regs.x30 = "schedule" -> schedule_resume(s1)
          [] regs.x30 = "recv" -> recv_resume(s1)
          [] regs.x30 = "spawn_from_main" -> spawn_from_main_resume(s1)

\* schedule that puts the caller behind the next task, not at the back
schedule_swap(s) ==
    IF Len(s.CONTEXTS) = 1 THEN schedule_return(s)
    ELSE IF s.CONTEXTS = <<>> THEN panic(s, UnwrapNone)
    ELSE LET ctx == Head(s.CONTEXTS)
             saved == [ctx EXCEPT !.regs = set_context("schedule", s.running)]
             rest == Tail(s.CONTEXTS)
             s1 == [s EXCEPT !.CONTEXTS = <<Head(rest), saved>> \o Tail(rest)]
         IN  switch_context(s1, Head(s1.CONTEXTS).regs)

schedule(s) ==
    IF Len(s.CONTEXTS) = 1 THEN schedule_return(s)
    ELSE IF s.CONTEXTS = <<>>
    THEN panic(s, UnwrapNone)
    ELSE LET ctx == Head(s.CONTEXTS)
             saved == [ctx EXCEPT !.regs = set_context("schedule", s.running)]
             s1 == [s EXCEPT !.CONTEXTS = Append(Tail(@), saved)]
         IN  switch_context(s1, Head(s1.CONTEXTS).regs)

\* send that does not wake the recipient
send_no_wake(s0, key, msg) ==
    LET s == enter(s0, "send")
        s1 == [s EXCEPT !.msgs = push_back(@, key, msg)]
    IN  schedule(s1)

\* send that wakes a waiting task whatever its key
send_wake_any(s0, key, msg) ==
    LET s == enter(s0, "send")
        s1 == [s EXCEPT !.msgs = push_back(@, key, msg)]
        s2 == IF s1.waiting # EmptyMap
              THEN LET w == CHOOSE w \in DOMAIN s1.waiting : TRUE
                   IN  [s1 EXCEPT !.waiting = MapRemove(@, w),
                                  !.CONTEXTS = Append(@, s1.waiting[w])]
              ELSE s1
    IN  schedule(s2)

\* send that leaves the recipient in the waiting table when it queues it
send_no_remove(s0, key, msg) ==
    LET s == enter(s0, "send")
        s1 == [s EXCEPT !.msgs = push_back(@, key, msg)]
        s2 == IF key \in DOMAIN s1.waiting
              THEN [s1 EXCEPT !.CONTEXTS = Append(@, s1.waiting[key])]
              ELSE s1
    IN  schedule(s2)

\* send that does not yield after delivering
send_no_yield(s0, key, msg) ==
    LET s == enter(s0, "send")
        s1 == [s EXCEPT !.msgs = push_back(@, key, msg)]
        s2 == IF key \in DOMAIN s1.waiting
              THEN [s1 EXCEPT !.waiting = MapRemove(@, key),
                              !.CONTEXTS = Append(@, s1.waiting[key])]
              ELSE s1
    IN  schedule_return(s2)

send(s0, key, msg) ==
    LET s == enter(s0, "send")
        s1 == [s EXCEPT !.msgs = push_back(@, key, msg)]
        s2 == IF key \in DOMAIN s1.waiting
              THEN [s1 EXCEPT !.waiting = MapRemove(@, key),
                              !.CONTEXTS = Append(@, s1.waiting[key])]
              ELSE s1
    IN  schedule(s2)

\* recv that looks for a deadlock before it looks into the mailbox
recv_check_first(s0) ==
    LET s == enter(s0, "recv")
    IN  IF s.CONTEXTS = <<>> THEN return_to_user(s, "recv", None)
        ELSE IF Len(s.CONTEXTS) = 1 THEN panic(s, "dead lock!")
        ELSE
        LET key == Head(s.CONTEXTS).id
            popped == pop_front(s.msgs, key)
        IN  IF is_some(popped.val)
            THEN recv_return([s EXCEPT !.msgs = popped.map], key, popped.val)
            ELSE LET ctx == Head(s.CONTEXTS)
                     saved == [ctx EXCEPT !.regs = set_context("recv", s.running)]
                     s1 == [s EXCEPT !.CONTEXTS = Tail(@),
                                     !.waiting = MapInsert(@, key, saved),
                                     !.frames[s.running].key = key,
                                     !.frames[s.running].since = s.nsent]
                 IN  switch_context(s1, Head(s1.CONTEXTS).regs)

recv(s0) ==
    LET s == enter(s0, "recv")
    IN  IF s.CONTEXTS = <<>> THEN return_to_user(s, "recv", None)
        ELSE
        LET key == Head(s.CONTEXTS).id
            popped == pop_front(s.msgs, key)
        IN  IF is_some(popped.val)
            THEN recv_return([s EXCEPT !.msgs = popped.map], key, popped.val)
            ELSE IF Len(s.CONTEXTS) = 1 THEN panic(s, "dead lock!")
            ELSE LET ctx == Head(s.CONTEXTS)
                     saved == [ctx EXCEPT !.regs = set_context("recv", s.running)]
                     s1 == [s EXCEPT !.CONTEXTS = Tail(@),
                                     !.waiting = MapInsert(@, key, saved),
                                     !.frames[s.running].key = key,
                                     !.frames[s.running].since = s.nsent]
                 IN  switch_context(s1, Head(s1.CONTEXTS).regs)

\* get_id that returns its first sample unchecked
get_id_first(set, rnd) == Head(rnd)

\* get_id, given the samples rand::random draws: the first one not in the set
RECURSIVE get_id(_, _)
get_id(set, rnd) ==
    IF Head(rnd) \notin set THEN Head(rnd) ELSE get_id(set, Tail(rnd))

\* the samples one call of get_id draws: all of them in the set but the last
\* (the loop ends with probability 1 and draws nothing after the sample it
\* returns).  Identifiers are interchangeable, so the last sample is taken to
\* be the least identifier not in the set.
Samples(set) ==
    {rnd \in UNION {[1..n -> IDS] : n \in 1..MaxSamples} :
        /\ rnd[Len(rnd)] \notin set
        /\ \A k \in IDS \ set : rnd[Len(rnd)] <= k
        /\ \A j \in 1..(Len(rnd) - 1) : rnd[j] \in set}

\* spawn that returns without yielding
spawn_no_yield(s0, func, rnd) ==
    LET s == enter(s0, "spawn")
        id == get_id(s.ids, rnd)
        stack == s.nalloc + 1
        s1 == [s EXCEPT !.ids = @ \cup {id},
                        !.rejected = Len(rnd) - 1,
                        !.nalloc = stack,
                        !.parent[stack] = s.running,
                        !.CONTEXTS = Append(@, Context_new(func, stack, id)),
                        !.frames[s.running].id = id]
    IN  schedule_return(s1)

spawn(s0, func, rnd) ==
    LET s == enter(s0, "spawn")
        id == get_id(s.ids, rnd)
        stack == s.nalloc + 1
        s1 == [s EXCEPT !.ids = @ \cup {id},
                        !.rejected = Len(rnd) - 1,
                        !.nalloc = stack,
                        !.parent[stack] = s.running,
                        !.CONTEXTS = Append(@, Context_new(func, stack, id)),
                        !.frames[s.running].id = id]
    IN  schedule(s1)

\* entry_point that releases the stack of the exiting task at once
entry_point_exit_free_self(s) ==
    IF s.CONTEXTS = <<>>
    THEN panic(s, UnwrapNone)
    ELSE LET ctx == Head(s.CONTEXTS)
             s0 == [s EXCEPT !.CONTEXTS = Tail(@),
                             !.ids = @ \ {ctx.id},
                             !.dead = @ \cup {ctx.id},
                             !.UNUSED_STACK = ctx.stack,
                             !.lost = IF s.UNUSED_STACK # Null
                                      THEN @ \cup {s.UNUSED_STACK} ELSE @]
             s1 == [rm_unused_stack(s0) EXCEPT !.frames[s.running] = NoFrame]
         IN  IF s1.CONTEXTS # <<>>
             THEN switch_context(s1, Head(s1.CONTEXTS).regs)
             ELSE IF is_some(s1.CTX_MAIN)
             THEN switch_context(s1, s1.CTX_MAIN[1])
             ELSE panic(s1, "entry_point")

\* entry_point that switches to the main context whenever there is one
entry_point_exit_to_main(s) ==
    IF s.CONTEXTS = <<>>
    THEN panic(s, UnwrapNone)
    ELSE LET ctx == Head(s.CONTEXTS)
             s1 == [s EXCEPT !.CONTEXTS = Tail(@),
                             !.ids = @ \ {ctx.id},
                             !.dead = @ \cup {ctx.id},
                             !.UNUSED_STACK = ctx.stack,
                             !.lost = IF s.UNUSED_STACK # Null
                                      THEN @ \cup {s.UNUSED_STACK} ELSE @,
                             !.frames[s.running] = NoFrame]
         IN  IF is_some(s1.CTX_MAIN)
             THEN switch_context(s1, s1.CTX_MAIN[1])
             ELSE IF s1.CONTEXTS # <<>>
             THEN switch_context(s1, Head(s1.CONTEXTS).regs)
             ELSE panic(s1, "entry_point")

\* entry_point that does not release the identifier of the exiting task
entry_point_exit_keep_id(s) ==
    IF s.CONTEXTS = <<>>
    THEN panic(s, UnwrapNone)
    ELSE LET ctx == Head(s.CONTEXTS)
             s1 == [s EXCEPT !.CONTEXTS = Tail(@),
                             !.dead = @ \cup {ctx.id},
                             !.UNUSED_STACK = ctx.stack,
                             !.lost = IF s.UNUSED_STACK # Null
                                      THEN @ \cup {s.UNUSED_STACK} ELSE @,
                             !.frames[s.running] = NoFrame]
         IN  IF s1.CONTEXTS # <<>>
             THEN switch_context(s1, Head(s1.CONTEXTS).regs)
             ELSE IF is_some(s1.CTX_MAIN)
             THEN switch_context(s1, s1.CTX_MAIN[1])
             ELSE panic(s1, "entry_point")

\* entry_point from the return of the entry function
entry_point_exit(s) ==
    IF s.CONTEXTS = <<>>
    THEN panic(s, UnwrapNone)
    ELSE LET ctx == Head(s.CONTEXTS)
             s1 == [s EXCEPT !.CONTEXTS = Tail(@),
                             !.ids = @ \ {ctx.id},
                             !.dead = @ \cup {ctx.id},
                             !.UNUSED_STACK = ctx.stack,
                             !.lost = IF s.UNUSED_STACK # Null
                                      THEN @ \cup {s.UNUSED_STACK} ELSE @,
                             !.frames[s.running] = NoFrame]
         IN  IF s1.CONTEXTS # <<>>
             THEN switch_context(s1, Head(s1.CONTEXTS).regs)
             ELSE IF is_some(s1.CTX_MAIN)
             THEN switch_context(s1, s1.CTX_MAIN[1])
             ELSE panic(s1, "entry_point")

\* spawn_from_main that saves the host context nowhere
spawn_from_main_no_main(s0, func, rnd) ==
    LET s == [enter(s0, "spawn_from_main") EXCEPT !.nboot = @ + 1,
                                                  !.booted = Append(@, func)]
    IN  IF is_some(s.CTX_MAIN) THEN panic(s, "spawn_from_main is called twice")
        ELSE
        LET s1 == [s EXCEPT !.msgs = EmptyMap, !.MESSAGES = 1,
                            !.waiting = EmptyMap, !.WAITING = 1,
                            !.ids = {}, !.ID = 1]
            id == get_id(s1.ids, rnd)
            stack == s1.nalloc + 1
            s2 == [s1 EXCEPT !.ids = @ \cup {id},
                             !.rejected = Len(rnd) - 1,
                             !.nalloc = stack,
                             !.CONTEXTS = Append(@, Context_new(func, stack, id))]
        IN  switch_context(s2, Head(s2.CONTEXTS).regs)

\* spawn_from_main that does not look at CTX_MAIN first
spawn_from_main_unchecked(s0, func, rnd) ==
    LET s == [enter(s0, "spawn_from_main") EXCEPT !.nboot = @ + 1,
                                                  !.booted = Append(@, func)]
        s1 == [s EXCEPT !.CTX_MAIN = Some(set_context("spawn_from_main", s.running)),
                        !.msgs = EmptyMap, !.MESSAGES = 1,
                        !.waiting = EmptyMap, !.WAITING = 1,
                        !.ids = {}, !.ID = 1]
        id == get_id(s1.ids, rnd)
        stack == s1.nalloc + 1
        s2 == [s1 EXCEPT !.ids = @ \cup {id},
                         !.rejected = Len(rnd) - 1,
                         !.nalloc = stack,
                         !.CONTEXTS = Append(@, Context_new(func, stack, id))]
    IN  switch_context(s2, Head(s2.CONTEXTS).regs)

spawn_from_main(s0, func, rnd) ==
    LET s == [enter(s0, "spawn_from_main") EXCEPT !.nboot = @ + 1,
                                                  !.booted = Append(@, func)]
    IN  IF is_some(s.CTX_MAIN) THEN panic(s, "spawn_from_main is called twice")
        ELSE
        LET s1 == [s EXCEPT !.CTX_MAIN = Some(set_context("spawn_from_main", s.running)),
                            !.msgs = EmptyMap, !.MESSAGES = 1,
                            !.waiting = EmptyMap, !.WAITING = 1,
                            !.ids = {}, !.ID = 1]
            id == get_id(s1.ids, rnd)
            stack == s1.nalloc + 1
            s2 == [s1 EXCEPT !.ids = @ \cup {id},
                             !.rejected = Len(rnd) - 1,
                             !.nalloc = stack,
                             !.CONTEXTS = Append(@, Context_new(func, stack, id))]
        IN  switch_context(s2, Head(s2.CONTEXTS).regs)

\* ---------------------------------------------------------------- actions
\* user code is running: a task's, or the host's outside the runtime
Task == running # Null /\ fatal = ""
Host == running = Null /\ fatal = ""

\* the running task chooses its calls freely, and may make one more
Free(entries) == frames[running].entry \in entries /\ nops < MaxOps

\* the state a runtime call starts from: the histories of one step are reset,
\* and a call other than schedule ends the current row of yields
Begin ==
    [State EXCEPT !.woke = <<>>, !.rejected = 0, !.drained = <<>>,
                  !.yc = [st \in DOMAIN yc |-> 0],
                  !.nops = IF frames[running].entry \in {"main", "worker"}
                           THEN @ + 1 ELSE @]
BeginYield ==
    [State EXCEPT !.woke = <<>>, !.rejected = 0, !.drained = <<>>,
                  !.yc[running] = @ + 1,
                  !.nops = @ + 1]

\* the host calls spawn_from_main(func, ..): main.rs's actor() when func is
\* producer
Bootstrap(func, rnd) ==
    /\ Host
    /\ nboot < MaxBoots
    /\ nops < MaxOps
    /\ nalloc < MaxTasks
    /\ func = "producer" => nboot = 0
    /\ Set(spawn_from_main(Begin, func, rnd))

\* the running task calls spawn(func, ..)
Spawn(func, rnd) ==
    /\ Task
    /\ \/ /\ frames[running].entry = "producer"
          /\ frames[running].pc = "spawn"
          /\ func = "consumer"
       \/ /\ Free({"worker"})
          /\ func = "worker"
          /\ nalloc < MaxTasks
    /\ Set(spawn(Begin, func, rnd))

\* the running task calls schedule()
Yield ==
    /\ Task
    /\ Free({"worker"})
    /\ Set(schedule(enter(BeginYield, "schedule")))

\* the stack of the live task bearing identifier k (Null: no live task does)
Bearer(k) ==
    LET live == {CONTEXTS[n] : n \in 1..Len(CONTEXTS)}
                    \cup {waiting[w] : w \in DOMAIN waiting}
    IN  IF \E c \in live : c.id = k
        THEN (CHOOSE c \in live : c.id = k).stack
        ELSE Null

\* the running task calls send(key, msg); the history keeps who bore key then
Send(key, msg) ==
    /\ Task
    /\ \/ /\ frames[running].entry = "producer"
          /\ frames[running].pc = "send"
          /\ key = frames[running].child
          /\ msg = frames[running].i
       \/ /\ Free({"worker"})
          /\ msg = nsent
    /\ Set(send([Begin EXCEPT !.nsent = @ + 1,
                              !.sent = Append(@, [from |-> running, to |-> key,
                                                  msg |-> msg,
                                                  owner |-> Bearer(key),
                                                  dead |-> key \in dead])],
                key, msg))

\* the running task calls recv()
Recv ==
    /\ Task
    /\ \/ /\ frames[running].entry = "consumer"
          /\ frames[running].pc = "recv"
       \/ Free({"worker"})
    /\ Set(recv(Begin))

\* the running task's entry function returns to entry_point
Return ==
    /\ Task
    /\ \/ frames[running].pc = "ret"
       \/ frames[running].entry = "worker"
    /\ Set(entry_point_exit([Begin EXCEPT !.nops = nops]))

\* the host calls schedule() outside spawn_from_main
HostYield ==
    /\ Host
    /\ nops < MaxOps
    /\ Set(schedule(enter(BeginYield, "schedule")))

\* the running task calls spawn_from_main
TaskBootstrap(func, rnd) ==
    /\ Task
    /\ Free({"worker"})
    /\ Set(spawn_from_main(Begin, func, rnd))

Next ==
    \/ \E func \in {"producer", "worker"}, rnd \in Samples({}) :
          Bootstrap(func, rnd)
    \/ \E func \in {"consumer", "worker"}, rnd \in Samples(ids) :
          Spawn(func, rnd)
    \/ Yield
    \/ \E key \in IDS, msg \in 0..(NumItems + MaxOps) : Send(key, msg)
    \/ Recv
    \/ Return
    \/ \E rnd \in Samples({}) : TaskBootstrap("worker", rnd)
    \/ HostYield

Spec == Init /\ [][Next]_vars

\* ---------------------------------------------------------------- claims

\* the values the recv calls of the task on stack st returned, in order
RECURSIVE GotOf(_, _)
GotOf(log, st) ==
    IF log = <<>> THEN <<>>
    ELSE IF Head(log).by = st THEN <<Head(log).msg>> \o GotOf(Tail(log), st)
    ELSE GotOf(Tail(log), st)

got == [st \in 0..MaxTasks |-> GotOf(rcvd, st)]

\* the contexts in the runnable queue
Runnable == {CONTEXTS[n] : n \in 1..Len(CONTEXTS)}

\* the contexts in the waiting table
Waiting == {waiting[k] : k \in DOMAIN waiting}

\* the identifier of the running task: that of the context that owns its stack
RunningId ==
    (CHOOSE c \in Runnable \cup Waiting : c.stack = running).id

\* the messages waiting for identifier k
Mailbox(k) == IF k \in DOMAIN msgs THEN msgs[k] ELSE <<>>

\* the run of main.rs: the host's first call is spawn_from_main(producer, ..)
ProducerRun == booted # <<>> /\ booted[1] = "producer"

\* the first call of spawn_from_main has returned to the host
FirstReturned == nret >= 1

\* line j of the expected stdout: Produce 0, Consume 0, Produce 1, Consume 1, ..
Expected(j) ==
    IF j % 2 = 1 THEN <<"Produce", (j - 1) \div 2>> ELSE <<"Consume", (j \div 2) - 1>>

\* C2: in the run of main.rs (producer spawns consumer and sends 0..9, the
\* consumer receives 10 times) stdout is at every moment a prefix of
\* Produce 0, Consume 0, .., Produce 9, Consume 9, the consumer has received
\* 0..9 in order, the run never panics, until spawn_from_main has returned the
\* running task is the producer or the consumer at its next call or return,
\* and when it has returned all 20 lines are written and both tasks have
\* exited.
C2_ProducerConsumerTrace ==
    ProducerRun =>
        /\ Len(out) <= 2 * NumItems
        /\ \A j \in 1..Len(out) : out[j] = Expected(j)
        /\ (nboot = 1 /\ nret = 0) => fatal = ""
        /\ \A st \in 1..MaxTasks :
              frames[st].entry = "consumer" =>
                  got[st] = [n \in 1..Len(got[st]) |-> n - 1]
        /\ (nboot = 1 /\ running # Null) =>
              \/ frames[running].entry = "producer"
                 /\ frames[running].pc \in {"spawn", "send", "ret"}
              \/ frames[running].entry = "consumer"
                 /\ frames[running].pc \in {"recv", "ret"}
        /\ FirstReturned => Len(out) = 2 * NumItems
        /\ (nret = 1 /\ nboot = 1 /\ running = Null /\ fatal = "") =>
              /\ got[2] = [n \in 1..NumItems |-> n - 1]
              /\ {1, 2} \subseteq started
              /\ frames[1] = NoFrame /\ frames[2] = NoFrame

\* the run of main.rs has ended: spawn_from_main has returned after 20 lines
C2_Witness ==
    /\ ProducerRun
    /\ nboot = 1 /\ nret = 1 /\ running = Null /\ fatal = ""
    /\ Len(out) = 2 * NumItems
    /\ out[2 * NumItems] = <<"Consume", NumItems - 1>>

\* C1: FIFO delivery.  Every message carries the number of the send call that
\* sent it, so a smaller message of one sender was sent earlier.  If two
\* messages sent by one task to one identifier have both been returned by recv
\* calls, the one sent first was returned first.
C1_FifoDelivery ==
    \A p, q \in 1..Len(rcvd) :
        (/\ rcvd[p].key = rcvd[q].key
         /\ sent[rcvd[p].msg + 1].from = sent[rcvd[q].msg + 1].from
         /\ rcvd[p].msg < rcvd[q].msg) => p < q

\* a freely choosing task has received two messages that one other task sent it
C1_Witness ==
    \E p, q \in 1..Len(rcvd) :
        /\ p < q
        /\ rcvd[p].by = rcvd[q].by
        /\ frames[rcvd[p].by].entry = "worker"
        /\ rcvd[p].key = rcvd[q].key
        /\ sent[rcvd[p].msg + 1].from = sent[rcvd[q].msg + 1].from
        /\ sent[rcvd[p].msg + 1].from # rcvd[p].by
        /\ sent[rcvd[p].msg + 1].to = rcvd[p].key
        /\ sent[rcvd[q].msg + 1].to = rcvd[q].key

\* C3: a call of recv by a task ends in the panic "dead lock!" exactly when,
\* at the call, the caller's mailbox is empty and the caller is alone in the
\* runnable queue.  Otherwise nothing panics: with a message waiting recv
\* returns the oldest one at once to the caller, which keeps running; with
\* none, the caller is in the waiting table under its identifier afterwards
\* and another task runs.  No other call ends in that panic.
C3_DeadlockIff ==
    [][/\ Recv =>
            /\ fatal' = "dead lock!" <=>
                   (Mailbox(RunningId) = <<>> /\ Len(CONTEXTS) = 1)
            /\ fatal' \in {"", "dead lock!"}
            /\ Mailbox(RunningId) # <<>> =>
                   /\ running' = running
                   /\ rcvd' = Append(rcvd, [by |-> running, key |-> RunningId,
                                            msg |-> Head(Mailbox(RunningId))])
                   /\ waiting' = waiting
            /\ (Mailbox(RunningId) = <<>> /\ Len(CONTEXTS) > 1) =>
                   /\ running' # running
                   /\ RunningId \in DOMAIN waiting'
                   /\ waiting'[RunningId].stack = running
       /\ (fatal = "" /\ fatal' = "dead lock!") => Recv
      ]_vars

\* a recv has ended in the deadlock panic
C3_Witness == fatal = "dead lock!"

Twice == "spawn_from_main is called twice"

\* C4 as claimed: once spawn_from_main has been called, every further call
\* ends in the panic "spawn_from_main is called twice".
C4_AtMostOncePerProcess ==
    [][(nboot >= 1 /\ nboot' = nboot + 1) => fatal' = Twice]_vars

\* C4 as the code has it: a call of spawn_from_main ends in the panic exactly
\* when the main context slot is populated at the call, which is exactly when
\* the call comes from a running task; a call by the host, also one after an
\* earlier spawn_from_main has returned, is accepted: it populates the slot and
\* runs its first task.
C4_RefusedWhileActive ==
    [][nboot' = nboot + 1 =>
          /\ fatal' = Twice <=> is_some(CTX_MAIN)
          /\ is_some(CTX_MAIN) <=> running # Null
          /\ running = Null =>
                /\ fatal' = ""
                /\ is_some(CTX_MAIN')
                /\ running' = nalloc'
                /\ running' \in started'
      ]_vars

\* a task has called spawn_from_main and the call has panicked
C4_Witness == fatal = Twice /\ nboot >= 2 /\ nret = 0

\* the task on stack st has run its entry function to completion
Exited(st) == st \in started /\ frames[st] = NoFrame

\* the host is running its own code after a return of spawn_from_main
Returned == running = Null /\ fatal = "" /\ nret >= 1

\* C5 as claimed: when spawn_from_main has returned to the host, every task
\* ever spawned has run its entry function to completion (none was left
\* suspended in the waiting table when the trampoline switched to the main
\* context).
C5_AllTasksExited ==
    Returned => \A st \in 1..nalloc : Exited(st)

\* C6: once spawn_from_main has returned to the host, the runnable queue, the
\* waiting table, the live identifier set and the mailbox are empty (and the
\* pointers to the three tables null), the main context slot is clear and the
\* unused-stack slot is empty.
C6_CleanAfterBootstrap ==
    Returned =>
        /\ CONTEXTS = <<>>
        /\ waiting = EmptyMap /\ WAITING = Null
        /\ ids = {} /\ ID = Null
        /\ msgs = EmptyMap /\ MESSAGES = Null
        /\ CTX_MAIN = None
        /\ UNUSED_STACK = Null

\* spawn_from_main has returned from a run in which a message was left unread
\* and a task was left suspended in recv
C6_Witness ==
    /\ Returned
    /\ Len(rcvd) < Len(sent)
    /\ \E st \in 1..nalloc : frames[st].fn = "recv"

\* C7: a task that spawn has created and whose entry function has not been
\* called yet has its spawner still inside that call of spawn (suspended in its
\* schedule), holding the new task's identifier, with the new task in the
\* runnable queue: spawn does not return before the new task is dispatched.
C7_SpawnYieldsToNewTask ==
    \A st \in 1..nalloc :
        st \notin started =>
            /\ parent[st] # Null
            /\ frames[parent[st]].fn = "spawn"
            /\ \E c \in Runnable :
                  c.stack = st /\ c.id = frames[parent[st]].id
                               /\ c.regs = Registers_new(st)
            /\ \E c \in Runnable :
                  c.stack = parent[st] /\ c.regs.x30 = "schedule"

\* a new task has just been dispatched, its spawner is still inside spawn, and
\* a third task is in the runnable queue
C7_Witness ==
    /\ running # Null
    /\ running \in started
    /\ parent[running] # Null
    /\ frames[parent[running]].fn = "spawn"
    /\ Len(CONTEXTS) >= 3
    /\ CONTEXTS[1].stack = running
    /\ CONTEXTS[2].stack = parent[running]

\* the stacks of the runnable queue, front first
QueueStacks == [n \in 1..Len(CONTEXTS) |-> CONTEXTS[n].stack]

\* C8: round robin.  yc counts, per task, the schedule calls it has made since
\* the last runtime call other than schedule.  In such a row of yields the
\* counts never decrease from the front of the runnable queue to its back and
\* differ by at most one (no task makes its (i+1)-th step before every task
\* has made its i-th), and a schedule call with two or more runnable tasks
\* rotates the queue by one and runs the new front.
C8_RoundRobin ==
    /\ [](\A p, q \in 1..Len(CONTEXTS) :
             p < q => /\ yc[CONTEXTS[p].stack] <= yc[CONTEXTS[q].stack]
                      /\ yc[CONTEXTS[q].stack] <= yc[CONTEXTS[p].stack] + 1)
    /\ [][(Yield /\ Len(CONTEXTS) >= 2) =>
             /\ QueueStacks' = Tail(QueueStacks) \o <<Head(QueueStacks)>>
             /\ running' = QueueStacks[2]
             /\ fatal' = ""
         ]_vars

\* three tasks are runnable and each has yielded once in the current row
C8_Witness ==
    /\ Len(CONTEXTS) = 3
    /\ \A n \in 1..3 : yc[CONTEXTS[n].stack] = 1

\* C9: no two live tasks (runnable or waiting) bear the same identifier, the
\* identifiers of the live tasks are exactly the live set, and the identifier
\* a call of spawn is about to return is that of the task it created.
C9_UniqueIds ==
    /\ \A c, d \in Runnable \cup Waiting : c.id = d.id => c = d
    /\ \A p, q \in 1..Len(CONTEXTS) : CONTEXTS[p].id = CONTEXTS[q].id => p = q
    /\ \A k \in DOMAIN waiting : waiting[k].id = k
    /\ \A st \in 1..nalloc :
          frames[st].fn = "spawn" =>
              \E c \in Runnable : c.id = frames[st].id /\ parent[c.stack] = st

\* spawn has just created a task after get_id rejected a sample that was in the
\* live set
C9_Witness ==
    /\ rejected >= 1
    /\ Len(CONTEXTS) >= 2
    /\ running # Null
    /\ frames[parent[running]].fn = "spawn"

\* the numbers of the messages sent to identifier k by the n-th send call or later
SentSince(k, n) == {m \in n..(Len(sent) - 1) : sent[m + 1].to = k}

\* C10: a recv that returns after having suspended returns Some(m), m being
\* the first message sent to the caller's identifier since it suspended; and a
\* send to the identifier of a waiting task takes that task out of the waiting
\* table and puts it at the back of the runnable queue, right before the
\* sender, which yields; a recv that returns at once returns a message too.
C10_BlockedRecvWoken ==
    /\ [](woke # <<>> =>
             /\ is_some(woke[1].val)
             /\ woke[1].stack = running
             /\ SentSince(woke[1].key, woke[1].since) # {}
             /\ \A m \in SentSince(woke[1].key, woke[1].since) :
                   woke[1].val[1] <= m
             /\ woke[1].val[1] \in SentSince(woke[1].key, woke[1].since)
             /\ rcvd[Len(rcvd)] = [by |-> running, key |-> woke[1].key,
                                   msg |-> woke[1].val[1]])
    /\ [][/\ \A key \in DOMAIN waiting :
                 (\E msg \in 0..(NumItems + MaxOps) : Send(key, msg)) =>
                     /\ key \notin DOMAIN waiting'
                     /\ QueueStacks' =
                           Tail(QueueStacks) \o <<waiting[key].stack, running>>
                     /\ fatal' = ""
          /\ (Recv /\ running' = running /\ fatal' = "") =>
                 Len(rcvd') = Len(rcvd) + 1
         ]_vars

\* a task suspended in recv has been woken by another task's send and its recv
\* has returned
C10_Witness ==
    /\ woke # <<>>
    /\ is_some(woke[1].val)
    /\ sent[woke[1].val[1] + 1].from # woke[1].stack
    /\ frames[running].entry = "worker"

\* the positions in rcvd of the messages received under identifier k, and the
\* positions in sent of the messages sent to it
RcvdBy(k) == {p \in 1..Len(rcvd) : rcvd[p].key = k}
SentTo(k) == {n \in 1..Len(sent) : sent[n].to = k}

\* C11: at-most-once delivery, nothing fabricated.  Every message carries the
\* number of the send call that sent it.  Every message a recv returned to the
\* task bearing identifier k was sent before by a send(k, ..) with that value,
\* no message was returned by two recv calls, for every identifier the
\* messages received are no more than the messages sent to it, and what is
\* sent to k and not yet received is what the mailbox of k holds.
C11_AtMostOnce ==
    /\ \A p \in 1..Len(rcvd) :
          /\ rcvd[p].msg + 1 \in 1..Len(sent)
          /\ sent[rcvd[p].msg + 1].to = rcvd[p].key
          /\ sent[rcvd[p].msg + 1].msg = rcvd[p].msg
    /\ \A p, q \in 1..Len(rcvd) : rcvd[p].msg = rcvd[q].msg => p = q
    /\ \A k \in IDS : Cardinality(RcvdBy(k)) <= Cardinality(SentTo(k))
    /\ (fatal = "" /\ nret = 0) =>
          \A k \in IDS :
              Cardinality(RcvdBy(k)) + Len(Mailbox(k)) = Cardinality(SentTo(k))

\* a task has received two messages and a third one sent to it is still in
\* its mailbox
C11_Witness ==
    \E k \in IDS :
        /\ Cardinality(RcvdBy(k)) = 2
        /\ Cardinality(SentTo(k)) = 3
        /\ Len(Mailbox(k)) = 1

\* C12 as claimed: a message is for the task that bears its identifier when it
\* is sent.  A message sent to the identifier of a live task is received by
\* that task or by none (none once that task has exited), and a message sent
\* to an identifier that an exited task bore and no live task bears is
\* received by none, whatever tasks are spawned later.
C12_DeadMailInaccessible ==
    \A p \in 1..Len(rcvd) :
        LET m == sent[rcvd[p].msg + 1]
        IN  /\ m.owner # Null => rcvd[p].by = m.owner
            /\ ~(m.owner = Null /\ m.dead)

\* C13: between the runtime calls (at the entry to and the exit from spawn,
\* schedule, send, recv and the exit step of entry_point) the live identifier
\* set holds exactly the identifiers of the contexts in the runnable queue and
\* the waiting table, and has as many elements as the two hold contexts.
C13_LiveSetInvariant ==
    /\ ids = {c.id : c \in Runnable \cup Waiting}
    /\ Cardinality(ids) = Len(CONTEXTS) + Cardinality(DOMAIN waiting)

\* a task has exited, another one is waiting in recv and a third one runs
C13_Witness ==
    /\ dead # {}
    /\ waiting # EmptyMap
    /\ CONTEXTS # <<>>
    /\ running # Null
    /\ Cardinality(ids) = 2

\* the places that hold the context of the task with identifier k
Holders(k) ==
    {<<"queue", n>> : n \in {j \in 1..Len(CONTEXTS) : CONTEXTS[j].id = k}}
        \cup {<<"waiting", w>> : w \in {j \in DOMAIN waiting : waiting[j].id = k}}

\* C14: the context of every live task is held in exactly one place, one
\* position of the runnable queue or one entry of the waiting table; no stack
\* is that of two held contexts, and no identifier (or stack) of the waiting
\* table is in the runnable queue.
C14_ExclusiveOwnership ==
    /\ \A k \in ids : Cardinality(Holders(k)) = 1
    /\ \A p, q \in 1..Len(CONTEXTS) :
          CONTEXTS[p].stack = CONTEXTS[q].stack => p = q
    /\ \A v, w \in DOMAIN waiting :
          waiting[v].stack = waiting[w].stack => v = w
    /\ \A w \in DOMAIN waiting :
          \A n \in 1..Len(CONTEXTS) :
              CONTEXTS[n].id # w /\ CONTEXTS[n].stack # waiting[w].stack

\* a send has just moved a waiting task to the runnable queue, where it runs
\* again, while another task is still in the waiting table
C14_Witness ==
    /\ woke # <<>>
    /\ waiting # EmptyMap
    /\ Len(CONTEXTS) >= 2
    /\ Head(CONTEXTS).stack = woke[1].stack

\* C15: while a task runs user code the runnable queue is not empty and its
\* front is the context of that task; and a step that moves control to another
\* stack moves it to the task at the front of the runnable queue, or to the
\* host when the step is the exit of the only task in the runnable queue.
C15_FrontIsRunning ==
    /\ [](Task => /\ CONTEXTS # <<>>
                  /\ Head(CONTEXTS).stack = running
                  /\ frames[running].entry = Head(CONTEXTS).entry)
    /\ [][(running' # running /\ fatal' = "") =>
             \/ /\ running' # Null
                /\ CONTEXTS' # <<>>
                /\ Head(CONTEXTS').stack = running'
             \/ /\ running' = Null
                /\ Return
                /\ QueueStacks = <<running>>
         ]_vars

\* after a spawn, an exit, a blocking recv and the send that woke it, the
\* woken task runs with another task behind it in the runnable queue
C15_Witness ==
    /\ Task
    /\ dead # {}
    /\ woke # <<>>
    /\ Len(CONTEXTS) >= 2
    /\ Head(CONTEXTS).stack = running

\* C16: when rm_unused_stack releases a stack, the flow of control that calls
\* it is on another stack (the one it goes on running user code on), the
\* released stack is that of a task whose entry function has returned, and
\* it is the stack of no context in the runnable queue or the waiting table;
\* so no released stack is ever the running one or that of a live task.
C16_StackLifetime ==
    /\ drained # <<>> =>
          /\ drained[1].stack # drained[1].on
          /\ drained[1].on = running
          /\ ~drained[1].held
          /\ Exited(drained[1].stack)
    /\ \A st \in freed :
          /\ st # running
          /\ st \notin LiveStacks(State)
          /\ Exited(st)

\* a task resumed after the exit of another task has released its stack,
\* with a second task in the runnable queue
C16_Witness ==
    /\ drained # <<>>
    /\ drained[1].on # Null
    /\ drained[1].on = running
    /\ Len(CONTEXTS) >= 2

\* C17 as claimed: entry_point never stores a stack into the unused-stack slot
\* while the slot still holds the stack of the task that exited before (no
\* stack is overwritten there), no stack is released twice, and when
\* spawn_from_main has returned the stack of every task that has exited has
\* been released.
C17_NoStackLost ==
    /\ lost = {}
    /\ drained # <<>> => ~drained[1].again
    /\ Returned => \A st \in 1..nalloc : Exited(st) => st \in freed

\* the messages a task may send
Msgs == 0..(NumItems + MaxOps)

\* C18: a task in the waiting table is suspended in recv, is not running and
\* is not in the runnable queue.  In every step an entry of the waiting table
\* stays as it is, its task not having executed, unless the step is a send to
\* the key of that entry (or the runtime ends: spawn_from_main returns or the
\* process panics).  A send to key k takes the entry of k, if there is one,
\* and no other out of the waiting table and puts its context at the back of
\* the runnable queue, the sender behind it: the woken task runs next only
\* when the sender was the only runnable task, else the task that was second
\* in the queue runs.
C18_WokenOnlyBySend ==
    /\ [](\A w \in DOMAIN waiting :
             /\ waiting[w].stack # running
             /\ \A n \in 1..Len(CONTEXTS) : CONTEXTS[n].stack # waiting[w].stack
             /\ frames[waiting[w].stack].fn = "recv"
             /\ frames[waiting[w].stack].key = w)
    /\ [][/\ \A w \in DOMAIN waiting :
                 /\ w \in DOMAIN waiting' =>
                       /\ waiting'[w] = waiting[w]
                       /\ frames'[waiting[w].stack] = frames[waiting[w].stack]
                 /\ w \notin DOMAIN waiting' =>
                       \/ \E msg \in Msgs : Send(w, msg)
                       \/ /\ waiting' = EmptyMap
                          /\ fatal' # "" \/ nret' = nret + 1
          /\ \A key \in IDS :
                 ((\E msg \in Msgs : Send(key, msg)) /\ fatal' = "") =>
                     /\ DOMAIN waiting' = DOMAIN waiting \ {key}
                     /\ key \in DOMAIN waiting =>
                           /\ QueueStacks' = Tail(QueueStacks)
                                                \o <<waiting[key].stack, running>>
                           /\ running' = IF Len(CONTEXTS) = 1
                                         THEN waiting[key].stack
                                         ELSE QueueStacks[2]
         ]_vars

\* a task is still in the waiting table after a send to another identifier
\* that was made while it waited
C18_Witness ==
    \E w \in DOMAIN waiting :
        \E n \in 1..Len(sent) :
            /\ n > frames[waiting[w].stack].since
            /\ sent[n].to # w

\* C19 as claimed: a call of schedule, by a task or by the host, made while
\* the runnable queue has one entry or none returns to its caller, which
\* keeps running: nothing panics, and the runnable queue, the waiting table,
\* the live identifier set, the mailbox and the unused-stack slot are as they
\* were.
C19_YieldAloneNoOp ==
    [][((Yield \/ HostYield) /\ Len(CONTEXTS) < 2) =>
          /\ fatal' = ""
          /\ running' = running
          /\ CONTEXTS' = CONTEXTS
          /\ waiting' = waiting
          /\ ids' = ids
          /\ msgs' = msgs
          /\ UNUSED_STACK' = UNUSED_STACK
          /\ freed' = freed
      ]_vars

\* C20: the panic at the bottom of entry_point is never reached.  While a
\* task runs the main context slot is populated; when the entry function of
\* the running task returns, nothing panics, and control goes to the task
\* that was second in the runnable queue, which is now its front, or, when
\* the exiting task was the only one in the queue, to the host inside
\* spawn_from_main, which returns.
C20_NoFallThrough ==
    /\ [](fatal # "entry_point")
    /\ [](Task => is_some(CTX_MAIN) /\ CTX_MAIN[1].sp = Null)
    /\ [][Return =>
             /\ fatal' = ""
             /\ Len(CONTEXTS) >= 2 =>
                   /\ running' = QueueStacks[2]
                   /\ QueueStacks' = Tail(QueueStacks)
                   /\ nret' = nret
             /\ Len(CONTEXTS) < 2 =>
                   /\ running' = Null
                   /\ nret' = nret + 1
                   /\ CTX_MAIN' = None
         ]_vars

\* spawn_from_main has returned after two or more tasks ran and all exited:
\* one exit switched to another task, the last one to the main context
C20_Witness ==
    /\ Returned
    /\ nalloc >= 2
    /\ nboot = 1
    /\ \A st \in 1..nalloc : Exited(st)

====
